---- MODULE Spec2Model ----
(***************************************************************************)
(* Model of final_script.py: the monthly AWS billing report job.           *)
(*                                                                         *)
(* One run of lambda_handler is a linear sequence of steps, one per        *)
(* external call or clock read; pc is the handler's position.  The         *)
(* answers an external service may give are those of the environment env   *)
(* names; the system date is clock.                                        *)
(*                                                                         *)
(* Abstractions: costs are whole currency units (integers) where the code  *)
(* has floats; a percentage is the exact rational num/den where the code   *)
(* has a float; a string the code slices or pads is a sequence of          *)
(* one-character strings.                                                  *)
(***************************************************************************)
EXTENDS Integers, Sequences, FiniteSets, TLC

(***************************************************************************)
(* Bounds of the model.                                                    *)
(***************************************************************************)
FirstYear == 2023
LastYear == 2025
MaxTicks == 1
MaxGroups == 3
MaxTail == 3
MaxAccountNameLen == 14
MaxServiceNameLen == 32

(***************************************************************************)
(* Calendar dates: datetime.date as [y, m, d].                             *)
(***************************************************************************)
IsLeap(y) == (y % 4 = 0) /\ ((y % 100 # 0) \/ (y % 400 = 0))

DaysInMonth(y, m) ==
    IF m = 2 THEN (IF IsLeap(y) THEN 29 ELSE 28)
    ELSE IF m \in {4, 6, 9, 11} THEN 30 ELSE 31

Date(y, m, d) == [y |-> y, m |-> m, d |-> d]

DatesOfYears(ys) ==
    { Date(y, m, d) : y \in ys, m \in 1..12, d \in 1..31 }
        \ { dt \in [y : ys, m : 1..12, d : 29..31] : dt.d > DaysInMonth(dt.y, dt.m) }

\* date.toordinal(): days since 0001-01-01, that day being 1.
DaysBeforeYear(y) ==
    LET y1 == y - 1 IN y1 * 365 + (y1 \div 4) - (y1 \div 100) + (y1 \div 400)

RECURSIVE DaysBeforeMonth(_, _)
DaysBeforeMonth(y, m) ==
    IF m = 1 THEN 0 ELSE DaysBeforeMonth(y, m - 1) + DaysInMonth(y, m - 1)

ToOrdinal(dt) == DaysBeforeYear(dt.y) + DaysBeforeMonth(dt.y, dt.m) + dt.d

\* date.fromordinal(n), for ordinals of the years the model covers.
FromOrdinal(n) ==
    LET y == CHOOSE yy \in (FirstYear - 2)..(LastYear + 2) :
                 DaysBeforeYear(yy) < n /\ n <= DaysBeforeYear(yy + 1)
        r == n - DaysBeforeYear(y)
        m == CHOOSE mm \in 1..12 :
                 DaysBeforeMonth(y, mm) < r /\ r <= DaysBeforeMonth(y, mm) + DaysInMonth(y, mm)
    IN  Date(y, m, r - DaysBeforeMonth(y, m))

\* date - timedelta(days=k)
MinusDays(dt, k) == FromOrdinal(ToOrdinal(dt) - k)

\* strftime("%Y-%m-%d"): ten characters, zero-padded.
Digits == <<"0", "1", "2", "3", "4", "5", "6", "7", "8", "9">>

DigitChar(n) == Digits[n + 1]

Strftime(dt) ==
    << DigitChar(dt.y \div 1000), DigitChar((dt.y \div 100) % 10),
       DigitChar((dt.y \div 10) % 10), DigitChar(dt.y % 10), "-",
       DigitChar(dt.m \div 10), DigitChar(dt.m % 10), "-",
       DigitChar(dt.d \div 10), DigitChar(dt.d % 10) >>

(***************************************************************************)
(* Period Calculator.                                                      *)
(***************************************************************************)
\* Faulty variant: the January case keeps the year.
LastMonthDatesNoWrap(today) ==
    LET first_day == IF today.m > 1 THEN Date(today.y, today.m - 1, 1)
                                    ELSE Date(today.y, 12, 1)
        last_day == MinusDays(Date(today.y, today.m, 1), 1)
    IN  << Strftime(first_day), Strftime(last_day) >>

\* get_last_month_dates, as a function of the date it reads.
LastMonthDates(today) ==
    LET first_day == IF today.m > 1 THEN Date(today.y, today.m - 1, 1)
                                    ELSE Date(today.y - 1, 12, 1)
        last_day == MinusDays(Date(today.y, today.m, 1), 1)
    IN  << Strftime(first_day), Strftime(last_day) >>

\* Faulty variant: the December case keeps the year.
ForecastWindowNoWrap(today) ==
    << Strftime(Date(today.y, today.m, 1)),
       Strftime(IF today.m < 12 THEN Date(today.y, today.m + 1, 1)
                                ELSE Date(today.y, 1, 1)) >>

\* The forecast period of fetch_billing_data, as a function of the date it reads.
ForecastWindow(today) ==
    << Strftime(Date(today.y, today.m, 1)),
       Strftime(IF today.m < 12 THEN Date(today.y, today.m + 1, 1)
                                ELSE Date(today.y + 1, 1, 1)) >>

(***************************************************************************)
(* Sequences and strings.                                                  *)
(***************************************************************************)
Min(a, b) == IF a < b THEN a ELSE b

\* s[:n]
Take(s, n) == SubSeq(s, 1, Min(n, Len(s)))

\* s[n:]
Drop(s, n) == SubSeq(s, Min(n, Len(s)) + 1, Len(s))

Reverse(s) == [i \in 1..Len(s) |-> s[Len(s) + 1 - i]]

\* str.ljust(n)
Ljust(s, n) == s \o [i \in 1..(IF Len(s) < n THEN n - Len(s) ELSE 0) |-> " "]

Ellipsis == <<".", ".", ".">>

RECURSIVE Concat(_)
Concat(ss) == IF ss = <<>> THEN <<>> ELSE Head(ss) \o Concat(Tail(ss))

RECURSIVE SumCost(_)
SumCost(s) == IF s = <<>> THEN 0 ELSE Head(s).Cost + SumCost(Tail(s))

(***************************************************************************)
(* Percentages: the float (a / b) * 100 as the rational num/den.           *)
(***************************************************************************)
Rat(n, d) == [num |-> n, den |-> d]

Zero == Rat(0, 1)

RatEq(p, q) == p.num * q.den = q.num * p.den

RatSign(p) ==
    IF p.num = 0 THEN 0
    ELSE IF (p.num > 0) = (p.den > 0) THEN 1 ELSE -1

\* (cost / total_cost) * 100 if <guard> else 0
PercentOf(cost, total_cost, guard) ==
    IF guard THEN Rat(cost * 100, total_cost) ELSE Zero

\* f"{p:.1f}": the number of tenths nearest to p, ties to the even one.
FormatTenths(p) ==
    LET n == (IF p.den > 0 THEN p.num ELSE -p.num) * 10
        d == IF p.den > 0 THEN p.den ELSE -p.den
        q == n \div d
        r == n - q * d
    IN  IF 2 * r > d THEN q + 1
        ELSE IF 2 * r < d THEN q
        ELSE IF q % 2 = 0 THEN q ELSE q + 1

(***************************************************************************)
(* Billing Data Aggregator: flatten and sort.                              *)
(***************************************************************************)
\* The nested loops over ResultsByTime and Groups: the groups in API order.
Flatten(results) == Concat(results)

\* Insertion of x into an ascending list, after the elements of equal cost.
RECURSIVE InsertAsc(_, _)
InsertAsc(s, x) ==
    IF s = <<>> THEN <<x>>
    ELSE IF s[Len(s)].Cost <= x.Cost THEN Append(s, x)
    ELSE Append(InsertAsc(SubSeq(s, 1, Len(s) - 1), x), s[Len(s)])

RECURSIVE SortAsc(_)
SortAsc(s) ==
    IF s = <<>> THEN <<>>
    ELSE InsertAsc(SortAsc(SubSeq(s, 1, Len(s) - 1)), s[Len(s)])

\* Faulty variant: a descending sort that is not stable (ascending sort, then reversed).
SortByCostDescUnstable(s) == Reverse(SortAsc(s))

\* list.sort(key=lambda x: x["Cost"], reverse=True): the list is reversed,
\* sorted ascending by a stable sort, and reversed again.
SortByCostDesc(s) == Reverse(SortAsc(Reverse(s)))

AccountEntry(group) == [AccountID |-> group.key, Cost |-> group.amount]

ServiceEntry(group) == [ServiceName |-> group.key, Cost |-> group.amount]

AccountBreakdown(results) ==
    LET groups == Flatten(results)
    IN  SortByCostDesc([i \in 1..Len(groups) |-> AccountEntry(groups[i])])

ServiceBreakdown(results) ==
    LET groups == Flatten(results)
    IN  SortByCostDesc([i \in 1..Len(groups) |-> ServiceEntry(groups[i])])

\* ((forecast_cost - total_cost) / total_cost) * 100 if total_cost > 0 else 0
MonthOverMonth(forecast_cost, total_cost) ==
    PercentOf(forecast_cost - total_cost, total_cost, total_cost > 0)

(***************************************************************************)
(* Account directory.                                                      *)
(***************************************************************************)
Unknown == <<"U", "n", "k", "n", "o", "w", "n">>

\* dict.get(account_id, 'Unknown')
NameOf(account_names, account_id) ==
    IF account_id \in DOMAIN account_names THEN account_names[account_id] ELSE Unknown

\* The dictionary filled from the accounts read, a later entry replacing an
\* earlier one of the same id.
DirectoryOf(accounts) ==
    [id \in {accounts[i].Id : i \in DOMAIN accounts} |->
        accounts[CHOOSE i \in DOMAIN accounts :
                    /\ accounts[i].Id = id
                    /\ \A j \in DOMAIN accounts : accounts[j].Id = id => j <= i].Name]

\* fetch_aws_account_names against a directory that raises while page fail_at
\* is fetched (0: never): the pages before it have been read into the dictionary.
FetchedAccountNames(answer) ==
    LET read == IF answer.fail_at = 0 THEN Len(answer.pages) ELSE answer.fail_at - 1
    IN  DirectoryOf(Concat(SubSeq(answer.pages, 1, read)))

(***************************************************************************)
(* Report Renderer.                                                        *)
(***************************************************************************)
TopN == 5
ServiceNameBudget == 30
ServiceNameKept == 27
AccountNameBudget == 12
AccountNameKept == 9
AccountIdShown == 12

OtherServices == <<"O", "t", "h", "e", "r", " ", "S", "e", "r", "v", "i", "c", "e", "s">>

\* Faulty variant: the whole budget is kept before the ellipsis.
TruncateKeepsBudget(name, budget, kept) ==
    IF Len(name) > budget THEN Take(name, budget) \o Ellipsis ELSE name

\* if len(name) > budget: name = name[:kept] + "..."
Truncate(name, budget, kept) ==
    IF Len(name) > budget THEN Take(name, kept) \o Ellipsis ELSE name

\* "^" / "v" / "-" in the document; red / green / white circle in the digest.
Trend(mom_change) ==
    IF RatSign(mom_change) > 0 THEN "up"
    ELSE IF RatSign(mom_change) < 0 THEN "down" ELSE "flat"

AbsTenths(p) == LET t == FormatTenths(p) IN IF t < 0 THEN -t ELSE t

\* Faulty variant: the remainder is merged whatever its sum.
TopServicesAlwaysOther(service_breakdown) ==
    LET top_services == Take(service_breakdown, TopN)
        others_cost == SumCost(Drop(service_breakdown, TopN))
    IN  IF Len(service_breakdown) > TopN
        THEN Append(top_services, [ServiceName |-> OtherServices, Cost |-> others_cost])
        ELSE top_services

\* The displayed services: the first five, then "Other Services" when the
\* costs beyond the fifth sum to more than zero.
TopServices(service_breakdown) ==
    LET top_services == Take(service_breakdown, TopN)
        others_cost == SumCost(Drop(service_breakdown, TopN))
    IN  IF others_cost > 0
        THEN Append(top_services, [ServiceName |-> OtherServices, Cost |-> others_cost])
        ELSE top_services

\* The rows of the account table of the document.
PdfAccountRows(billing_data, account_names) ==
    [i \in 1..Len(billing_data.cost_breakdown) |->
        LET item == billing_data.cost_breakdown[i]
        IN  [AccountID |-> item.AccountID,
             AccountName |-> NameOf(account_names, item.AccountID),
             Cost |-> item.Cost,
             Percentage |-> FormatTenths(PercentOf(item.Cost, billing_data.total_cost,
                                                   billing_data.total_cost > 0))]]

\* A highlight box: account id, name, cost.
Highlight(item, account_names) ==
    [AccountID |-> item.AccountID,
     AccountName |-> NameOf(account_names, item.AccountID),
     Cost |-> item.Cost]

\* The rows of the service table of the document.
PdfServiceRows(top_services, total_cost) ==
    [i \in 1..Len(top_services) |->
        [ServiceName |-> Truncate(top_services[i].ServiceName, ServiceNameBudget, ServiceNameKept),
         Cost |-> top_services[i].Cost,
         Percentage |-> FormatTenths(PercentOf(top_services[i].Cost, total_cost, total_cost > 0))]]

\* The stacked bar: per displayed service its percentage, whether a segment is
\* drawn (width > 0), and the cumulative percentage at which it starts.
RECURSIVE PdfBarFrom(_, _, _, _)
PdfBarFrom(top_services, total_cost, i, cumulative) ==
    IF i > Len(top_services) THEN <<>>
    ELSE LET percentage == PercentOf(top_services[i].Cost, total_cost, total_cost > 0)
             drawn == RatSign(percentage) > 0
         IN  << [Percentage |-> percentage, Drawn |-> drawn,
                 Offset |-> PercentOf(cumulative, total_cost, total_cost > 0)] >>
             \o PdfBarFrom(top_services, total_cost, i + 1,
                           IF drawn THEN cumulative + top_services[i].Cost ELSE cumulative)

PdfBar(top_services, total_cost) == PdfBarFrom(top_services, total_cost, 1, 0)

\* The legend: truncated name, percentage, and the place in the two columns.
PdfLegend(top_services, total_cost) ==
    LET max_items_per_column == (Len(top_services) + 1) \div 2
    IN  [i \in 1..Len(top_services) |->
            [ServiceName |-> Truncate(top_services[i].ServiceName, ServiceNameBudget, ServiceNameKept),
             Percentage |-> FormatTenths(PercentOf(top_services[i].Cost, total_cost, total_cost > 0)),
             Column |-> (i - 1) \div max_items_per_column,
             Row |-> (i - 1) % max_items_per_column]]

\* generate_pdf_report: the content of the document.
PdfReport(billing_data, org, account_names) ==
    LET cost_breakdown == billing_data.cost_breakdown
        top_services == TopServices(billing_data.service_breakdown)
        has_services == billing_data.service_breakdown # <<>>
    IN  [org_id |-> org.id, org_name |-> org.name,
         start_date |-> billing_data.start_date, end_date |-> billing_data.end_date,
         currency |-> billing_data.currency, total_cost |-> billing_data.total_cost,
         forecast_currency |-> billing_data.forecast_currency,
         forecast_cost |-> billing_data.forecast_cost,
         trend_icon |-> Trend(billing_data.mom_change),
         mom_change |-> AbsTenths(billing_data.mom_change),
         forecast_start |-> billing_data.forecast_start,
         forecast_end |-> billing_data.forecast_end,
         placeholder |-> cost_breakdown = <<>>,
         account_rows |-> PdfAccountRows(billing_data, account_names),
         highest |-> IF cost_breakdown # <<>>
                     THEN << Highlight(cost_breakdown[1], account_names) >> ELSE <<>>,
         lowest |-> IF Len(cost_breakdown) > 1
                    THEN << Highlight(cost_breakdown[Len(cost_breakdown)], account_names) >>
                    ELSE <<>>,
         service_rows |-> IF has_services
                          THEN PdfServiceRows(top_services, billing_data.total_cost) ELSE <<>>,
         bar |-> IF has_services THEN PdfBar(top_services, billing_data.total_cost) ELSE <<>>,
         legend |-> IF has_services
                    THEN PdfLegend(top_services, billing_data.total_cost) ELSE <<>>]

(***************************************************************************)
(* Notification Formatter.                                                 *)
(***************************************************************************)
\* The rows of the top-accounts table of the digest (at most five).
DigestAccountRows(billing_data, account_names) ==
    LET shown == Take(billing_data.cost_breakdown, TopN)
    IN  [i \in 1..Len(shown) |->
            [AccountID |-> Take(shown[i].AccountID, AccountIdShown),
             AccountName |-> Ljust(Truncate(NameOf(account_names, shown[i].AccountID),
                                            AccountNameBudget, AccountNameKept),
                                   AccountNameBudget),
             Cost |-> shown[i].Cost,
             Percentage |-> FormatTenths(PercentOf(shown[i].Cost, billing_data.total_cost,
                                                   billing_data.total_cost # 0))]]

\* format_slack_message: the content of the digest.  link is the download
\* link send_to_slack may append.
SlackMessage(billing_data, account_names) ==
    LET cost_breakdown == billing_data.cost_breakdown
        service_breakdown == billing_data.service_breakdown
        total_cost == billing_data.total_cost
        mom_change == billing_data.mom_change
    IN  [start_date |-> billing_data.start_date, end_date |-> billing_data.end_date,
         total_cost |-> total_cost,
         forecast_cost |-> billing_data.forecast_cost,
         trend_icon |-> Trend(mom_change),
         trend_text |-> FormatTenths(mom_change),
         account_rows |-> DigestAccountRows(billing_data, account_names),
         highest |-> IF cost_breakdown # <<>>
                     THEN << Highlight(cost_breakdown[1], account_names) >> ELSE <<>>,
         lowest |-> IF Len(cost_breakdown) > 1
                    THEN << Highlight(cost_breakdown[Len(cost_breakdown)], account_names) >>
                    ELSE <<>>,
         top_service |-> IF service_breakdown # <<>>
                         THEN << [ServiceName |-> service_breakdown[1].ServiceName,
                                  Cost |-> service_breakdown[1].Cost,
                                  Percentage |-> FormatTenths(PercentOf(service_breakdown[1].Cost,
                                                                        total_cost, total_cost > 0))] >>
                         ELSE <<>>,
         trend_line |-> IF RatSign(mom_change) # 0
                        THEN << [Percentage |-> AbsTenths(mom_change),
                                 Direction |-> IF RatSign(mom_change) > 0
                                               THEN "increase" ELSE "decrease"] >>
                        ELSE <<>>,
         link |-> <<>>]

(***************************************************************************)
(* Distribution Layer.                                                     *)
(***************************************************************************)
None == "None"

PdfFilename == "/tmp/aws_billing_report.pdf"

S3Url == "https://billingbktlambda11.s3.amazonaws.com/aws_billing_reports/aws_billing_report.pdf"

\* Faulty variant: the URL is returned whether or not upload_file raised.
UploadedUrlAlways(upload_ok) == S3Url

\* upload_pdf_to_s3: the URL when upload_file returns, None when it raises.
UploadedUrl(upload_ok) == IF upload_ok THEN S3Url ELSE None

\* Faulty variant: the link is not appended.
WithoutLink(message, url) == message

\* message += "... <s3_url|Click here to download the PDF Report>"
WithLink(message, url) == [message EXCEPT !.link = << url >>]

\* The attachment upload of send_to_slack is tried when a document and its URL
\* exist and the API token is set.
TriesUpload(pdf_path, url, api_token) == pdf_path # None /\ url # None /\ api_token

\* The attachment upload delivered the digest: status 200 and ok in the answer.
UploadDelivered(answer) == ~answer.exc /\ answer.status = 200 /\ answer.ok

\* The webhook post delivered the digest: status 200.
WebhookDelivered(answer) == ~answer.exc /\ answer.status = 200

\* Faulty variant: the webhook is posted to whether or not it is configured.
SlackOutcomeUnguarded(message, pdf_path, url, webhook_url, api_token, upload, webhook) ==
    LET tries == TriesUpload(pdf_path, url, api_token)
        first == IF tries
                 THEN << [kind |-> "files.upload", text |-> message, answer |-> upload,
                          delivered |-> UploadDelivered(upload)] >>
                 ELSE <<>>
    IN  IF tries /\ UploadDelivered(upload)
        THEN [requests |-> first, sent |-> TRUE]
        ELSE LET text == IF pdf_path # None /\ url # None
                         THEN WithLink(message, url) ELSE message
             IN  [requests |-> Append(first, [kind |-> "webhook", text |-> text,
                                              answer |-> webhook,
                                              delivered |-> WebhookDelivered(webhook)]),
                  sent |-> WebhookDelivered(webhook)]

\* Faulty variant: a webhook post that fails is made a second time.
SlackOutcomeRetries(message, pdf_path, url, webhook_url, api_token, upload, webhook) ==
    IF ~webhook_url THEN [requests |-> <<>>, sent |-> FALSE]
    ELSE LET tries == TriesUpload(pdf_path, url, api_token)
             first == IF tries
                      THEN << [kind |-> "files.upload", text |-> message, answer |-> upload,
                               delivered |-> UploadDelivered(upload)] >>
                      ELSE <<>>
             text == IF pdf_path # None /\ url # None THEN WithLink(message, url) ELSE message
             post == [kind |-> "webhook", text |-> text, answer |-> webhook,
                      delivered |-> WebhookDelivered(webhook)]
         IN  IF tries /\ UploadDelivered(upload)
             THEN [requests |-> first, sent |-> TRUE]
             ELSE [requests |-> first \o (IF WebhookDelivered(webhook)
                                          THEN << post >> ELSE << post, post >>),
                   sent |-> WebhookDelivered(webhook)]

\* Faulty variant: the webhook is posted to after a delivered attachment upload
\* as well.
SlackOutcomeFallsThrough(message, pdf_path, url, webhook_url, api_token, upload, webhook) ==
    IF ~webhook_url THEN [requests |-> <<>>, sent |-> FALSE]
    ELSE LET tries == TriesUpload(pdf_path, url, api_token)
             first == IF tries
                      THEN << [kind |-> "files.upload", text |-> message, answer |-> upload,
                               delivered |-> UploadDelivered(upload)] >>
                      ELSE <<>>
             text == IF pdf_path # None /\ url # None THEN WithLink(message, url) ELSE message
         IN  [requests |-> Append(first, [kind |-> "webhook", text |-> text,
                                          answer |-> webhook,
                                          delivered |-> WebhookDelivered(webhook)]),
              sent |-> (tries /\ UploadDelivered(upload)) \/ WebhookDelivered(webhook)]

\* send_to_slack: the requests made, in order, each with the answer it got and
\* whether it delivered the digest, and the value returned.
SlackOutcome(message, pdf_path, url, webhook_url, api_token, upload, webhook) ==
    IF ~webhook_url THEN [requests |-> <<>>, sent |-> FALSE]
    ELSE LET tries == TriesUpload(pdf_path, url, api_token)
             first == IF tries
                      THEN << [kind |-> "files.upload", text |-> message,
                               answer |-> upload,
                               delivered |-> UploadDelivered(upload)] >>
                      ELSE <<>>
         IN  IF tries /\ UploadDelivered(upload)
             THEN [requests |-> first, sent |-> TRUE]
             ELSE LET text == IF pdf_path # None /\ url # None
                              THEN WithLink(message, url) ELSE message
                      delivered == WebhookDelivered(webhook)
                  IN  [requests |-> Append(first, [kind |-> "webhook", text |-> text,
                                                   answer |-> webhook,
                                                   delivered |-> delivered]),
                       sent |-> delivered]

(***************************************************************************)
(* Orchestrator.                                                           *)
(***************************************************************************)
\* fetch_aws_organization_details: by what answers.
OrgDetails(answer) ==
    IF answer = "ok" THEN [id |-> "o-example", name |-> "Example Org"]
    ELSE IF answer = "no_organizations" THEN [id |-> "123456789012", name |-> "AWS Organization"]
    ELSE [id |-> "Unknown", name |-> "AWS Organization"]

\* Faulty variant: the test of the breakdown inverted.
NoBillingDataInverted(billing_data) ==
    billing_data.total_cost = 0 /\ billing_data.cost_breakdown # <<>>

\* if billing_data["total_cost"] == 0 and not billing_data["cost_breakdown"]
NoBillingData(billing_data) ==
    billing_data.total_cost = 0 /\ billing_data.cost_breakdown = <<>>

NoDataResult == [message |-> "No billing data available"]

FullResult(org, billing_data, url, sent) ==
    [message |-> "Billing report generated and notifications sent",
     organization_id |-> org.id, organization_name |-> org.name,
     total_cost |-> billing_data.total_cost, currency |-> billing_data.currency,
     billing_period |-> << billing_data.start_date, billing_data.end_date >>,
     pdf_report_url |-> url, slack_message_sent |-> sent]

(***************************************************************************)
(* State.                                                                  *)
(***************************************************************************)
VARIABLES
    env,                \* the environment of the run: names what each service may answer
    clock,              \* the system date
    ticks,              \* midnights passed since the run began
    SLACK_WEBHOOK_URL,  \* whether the environment variable is set
    SLACK_API_TOKEN,    \* whether the environment variable is set
    pc,                 \* position of lambda_handler
    org,                \* org_id, org_name
    account_names,
    directory_response, \* what the directory answered
    today_glmd,         \* today, as read by get_last_month_dates
    today_fbd,          \* today, as read by fetch_billing_data
    start_date, end_date, forecast_start, forecast_end,
    total_cost, currency, cost_breakdown, service_breakdown,
    total_response,     \* the answer of the total-cost call
    account_response,   \* ResultsByTime of the by-account answer
    service_response,   \* ResultsByTime of the by-service answer
    billing_data,       \* what fetch_billing_data returned
    fetched,            \* which cost-API calls of this run returned an answer
    uploaded,           \* whether upload_file returned
    pdf, pdf_filename, s3_url, slack_message,
    requests_made,      \* the HTTP requests send_to_slack made, in order
    slack_sent,
    calls,              \* how many times each external call, and each of
                        \* generate_pdf_report and send_to_slack, was made
    result              \* what lambda_handler returned

envVars == << env, SLACK_WEBHOOK_URL, SLACK_API_TOKEN >>
timeVars == << clock, ticks >>
dirVars == << account_names, directory_response >>
periodVars == << today_glmd, today_fbd, start_date, end_date, forecast_start, forecast_end >>
fetchVars == << total_cost, currency, cost_breakdown, service_breakdown,
                total_response, account_response, service_response, billing_data, fetched >>
outVars == << pdf, pdf_filename, uploaded, s3_url, slack_message, requests_made,
             slack_sent, result >>
vars == << envVars, timeVars, pc, org, dirVars, periodVars, fetchVars, outVars, calls >>

NoCalls ==
    [total |-> 0, accounts |-> 0, services |-> 0, forecast |-> 0,
     s3 |-> 0, upload |-> 0, webhook |-> 0, pdf |-> 0, slack |-> 0]

NoneFetched == [total |-> FALSE, accounts |-> FALSE, services |-> FALSE, forecast |-> FALSE]

\* The dictionary fetch_billing_data returns from inside the try block.
Snapshot(total, unit, accounts, services, fcost, funit, mom, period) ==
    [total_cost |-> total, currency |-> unit,
     cost_breakdown |-> accounts, service_breakdown |-> services,
     forecast_cost |-> fcost, forecast_currency |-> funit, mom_change |-> mom,
     start_date |-> period[1], end_date |-> period[2],
     forecast_start |-> period[3], forecast_end |-> period[4]]

\* The dictionary fetch_billing_data returns after an exception of the try block.
DefaultSnapshot(period) == Snapshot(0, "USD", <<>>, <<>>, 0, "USD", Zero, period)

\* Faulty variant: after a failed forecast call the forecast currency is the default
\* one, not the billing currency.
SnapshotWithForecastDefaultUnit(total, unit, accounts, services, answer, period) ==
    IF answer.ok
    THEN LET forecast_cost == IF answer.has_total THEN answer.amount ELSE 0
             forecast_currency == IF answer.has_total THEN answer.unit ELSE "USD"
         IN  Snapshot(total, unit, accounts, services, forecast_cost, forecast_currency,
                      MonthOverMonth(forecast_cost, total), period)
    ELSE Snapshot(total, unit, accounts, services, 0, "USD", Zero, period)

\* The snapshot when the forecast call has been answered or has raised.
SnapshotWithForecast(total, unit, accounts, services, answer, period) ==
    IF answer.ok
    THEN LET forecast_cost == IF answer.has_total THEN answer.amount ELSE 0
             forecast_currency == IF answer.has_total THEN answer.unit ELSE "USD"
         IN  Snapshot(total, unit, accounts, services, forecast_cost, forecast_currency,
                      MonthOverMonth(forecast_cost, total), period)
    ELSE Snapshot(total, unit, accounts, services, 0, unit, Zero, period)

Unset == [set |-> FALSE]

NoDate == Date(0, 0, 0)

InitProgram ==
    /\ ticks = 0
    /\ pc = "org"
    /\ org = [id |-> None, name |-> None]
    /\ account_names = << >>
    /\ directory_response = Unset
    /\ today_glmd = NoDate /\ today_fbd = NoDate
    /\ start_date = None /\ end_date = None
    /\ forecast_start = None /\ forecast_end = None
    /\ total_cost = 0 /\ currency = None
    /\ cost_breakdown = << >> /\ service_breakdown = << >>
    /\ total_response = Unset
    /\ account_response = << >> /\ service_response = << >>
    /\ billing_data = Unset
    /\ fetched = NoneFetched
    /\ pdf = Unset /\ pdf_filename = None
    /\ uploaded = FALSE /\ s3_url = None
    /\ slack_message = Unset
    /\ requests_made = << >>
    /\ slack_sent = FALSE
    /\ calls = NoCalls
    /\ result = Unset

(***************************************************************************)
(* Environments: the answers the external services may give.               *)
(***************************************************************************)
Acct1 == <<"1", "1", "1">>
Acct2 == <<"2", "2", "2">>
ProdName == <<"P", "r", "o", "d">>
LongAccountName == <<"D", "a", "t", "a", " ", "P", "l", "a", "t", "f", "o", "r", "m">>
LongServiceName == [i \in 1..31 |-> IF i < 28 THEN "s" ELSE "t"]
Svc(i) == IF i = 2 THEN LongServiceName ELSE <<"S", DigitChar(i)>>

Group(key, amount) == [key |-> key, amount |-> amount]

Raised == [ok |-> FALSE]

Total(amount, unit) == [ok |-> TRUE, amount |-> amount, unit |-> unit]

Grouped(results) == [ok |-> TRUE, results |-> results]

Forecast(amount, unit) == [ok |-> TRUE, has_total |-> TRUE, amount |-> amount, unit |-> unit]

ForecastWithoutTotal == [ok |-> TRUE, has_total |-> FALSE]

DirectoryPages ==
    << << [Id |-> Acct1, Name |-> ProdName] >>,
       << [Id |-> Acct2, Name |-> LongAccountName] >> >>

Directory(fail_at) == [pages |-> DirectoryPages, fail_at |-> fail_at]

UploadAnswers ==
    { [exc |-> TRUE, status |-> 0, ok |-> FALSE],
      [exc |-> FALSE, status |-> 500, ok |-> FALSE],
      [exc |-> FALSE, status |-> 200, ok |-> FALSE],
      [exc |-> FALSE, status |-> 200, ok |-> TRUE] }

WebhookAnswers ==
    { [exc |-> TRUE, status |-> 0],
      [exc |-> FALSE, status |-> 500],
      [exc |-> FALSE, status |-> 200] }

TwoAccounts == << << Group(Acct1, 600), Group(Acct2, 400) >> >>

TwoServices == << << Group(Svc(1), 700), Group(Svc(2), 300) >> >>

\* Every service answers or fails in each of its ways.
RunEnv ==
    [org |-> {"ok", "no_organizations", "no_identity"},
     directory |-> {Directory(k) : k \in 0..Len(DirectoryPages)},
     total |-> {Raised, Total(0, "USD"), Total(1000, "USD"), Total(-200, "EUR")},
     accounts |-> {Raised, Grouped(<<>>), Grouped(TwoAccounts)},
     services |-> {Raised, Grouped(<<>>), Grouped(TwoServices)},
     forecast |-> {Raised, ForecastWithoutTotal, Forecast(1100, "USD")},
     s3 |-> BOOLEAN,
     upload |-> UploadAnswers,
     webhook |-> WebhookAnswers]

\* Every service answers, and always the same.
QuietEnv ==
    [org |-> {"ok"},
     directory |-> {Directory(0)},
     total |-> {Total(1000, "USD")},
     accounts |-> {Grouped(TwoAccounts)},
     services |-> {Grouped(TwoServices)},
     forecast |-> {Forecast(1100, "USD")},
     s3 |-> {TRUE},
     upload |-> {[exc |-> FALSE, status |-> 200, ok |-> TRUE]},
     webhook |-> {[exc |-> FALSE, status |-> 200]}]

\* The sequences over S of length at most n.
RECURSIVE SeqsUpTo(_, _)
SeqsUpTo(S, n) ==
    IF n = 0 THEN { <<>> }
    ELSE LET shorter == SeqsUpTo(S, n - 1)
         IN  shorter \cup { Append(q, x) : q \in shorter, x \in S }

\* A list of groups as ResultsByTime: in one result, or cut in two.
AsResults(groups) ==
    { << groups >> } \cup { << SubSeq(groups, 1, k), SubSeq(groups, k + 1, Len(groups)) >> :
                               k \in 0..Len(groups) }

GroupedAnswers(keys, amounts) ==
    { Grouped(<<>>) } \cup
    { Grouped(results) :
        results \in UNION { AsResults(groups) :
                              groups \in SeqsUpTo({Group(k, a) : k \in keys, a \in amounts},
                                                  MaxGroups) } }

SortAmounts == {-1, 0, 2}

FewAmounts == {0, 2}

\* Any short answer to the by-account call.
SortAccountsEnv ==
    [QuietEnv EXCEPT !.accounts = GroupedAnswers({Acct1, Acct2}, SortAmounts)]

\* Any short answer to the by-service call.
SortServicesEnv ==
    [QuietEnv EXCEPT !.services = GroupedAnswers({Svc(1), Svc(2)}, FewAmounts)]

\* Up to four services of fixed cost, or all four and a tail of any costs.
BaseServices == << Group(Svc(1), 50), Group(Svc(2), 40), Group(Svc(3), 30), Group(Svc(4), 20) >>

TailAmounts == {-5, 0, 3, 5, 10}

ServiceLists ==
    { SubSeq(BaseServices, 1, k) : k \in 0..Len(BaseServices) } \cup
    { BaseServices \o [i \in 1..Len(tail) |-> Group(Svc(Len(BaseServices) + i), tail[i])] :
        tail \in SeqsUpTo(TailAmounts, MaxTail) }

\* Totals of either sign and zero, forecasts above and below, many services.
ReportEnv ==
    [QuietEnv EXCEPT
        !.total = {Total(-160, "USD"), Total(0, "USD"), Total(160, "USD")},
        !.accounts = {Grouped(<<>>), Grouped(<< << Group(Acct1, 110), Group(Acct2, 50) >> >>)},
        !.services = { Grouped(<< list >>) : list \in ServiceLists },
        !.forecast = {Forecast(176, "USD")}]

\* A name of n characters, no two adjacent ones alike.
NameOfLength(n) == [i \in 1..n |-> DigitChar(i % 10)]

\* Account and service names of every length up to the bounds.
NamesEnv ==
    [QuietEnv EXCEPT
        !.directory = { [pages |-> << << [Id |-> Acct1, Name |-> NameOfLength(n)] >> >>,
                         fail_at |-> 0] : n \in 0..MaxAccountNameLen },
        !.services = { Grouped(<< << Group(NameOfLength(n), 700), Group(Svc(1), 300) >> >>) :
                         n \in 1..MaxServiceNameLen }]

\* What each external service may answer in the environment named.
Answers(name) ==
    CASE name = "run" -> RunEnv
      [] name = "quiet" -> QuietEnv
      [] name = "sort_accounts" -> SortAccountsEnv
      [] name = "sort_services" -> SortServicesEnv
      [] name = "report" -> ReportEnv
      [] name = "names" -> NamesEnv

(***************************************************************************)
(* Steps of lambda_handler.                                                *)
(***************************************************************************)
Period == << start_date, end_date, forecast_start, forecast_end >>

\* org_id, org_name = fetch_aws_organization_details()
FetchAwsOrganizationDetails ==
    /\ pc = "org"
    /\ \E answer \in Answers(env).org : org' = OrgDetails(answer)
    /\ pc' = "names"
    /\ UNCHANGED << envVars, timeVars, dirVars, periodVars, fetchVars, outVars, calls >>

\* account_names = fetch_aws_account_names()
FetchAwsAccountNames ==
    /\ pc = "names"
    /\ \E answer \in Answers(env).directory :
          /\ directory_response' = answer
          /\ account_names' = FetchedAccountNames(answer)
    /\ pc' = "dates"
    /\ UNCHANGED << envVars, timeVars, org, periodVars, fetchVars, outVars, calls >>

\* fetch_billing_data: start_date, end_date = get_last_month_dates()
GetLastMonthDates ==
    /\ pc = "dates"
    /\ today_glmd' = clock
    /\ start_date' = LastMonthDates(clock)[1]
    /\ end_date' = LastMonthDates(clock)[2]
    /\ pc' = "window"
    /\ UNCHANGED << envVars, timeVars, org, dirVars, today_fbd, forecast_start,
                    forecast_end, fetchVars, outVars, calls >>

\* Midnight passes between the two reads of the system date.  The date is
\* read nowhere else, so a midnight at any other moment changes nothing the
\* run computes.
Tick ==
    /\ pc = "window"
    /\ ticks < MaxTicks
    /\ clock' = FromOrdinal(ToOrdinal(clock) + 1)
    /\ ticks' = ticks + 1
    /\ UNCHANGED << envVars, pc, org, dirVars, periodVars, fetchVars, outVars, calls >>

\* fetch_billing_data: today = date.today() and the forecast period
ComputeForecastWindow ==
    /\ pc = "window"
    /\ today_fbd' = clock
    /\ forecast_start' = ForecastWindow(clock)[1]
    /\ forecast_end' = ForecastWindow(clock)[2]
    /\ pc' = "total"
    /\ UNCHANGED << envVars, timeVars, org, dirVars, today_glmd, start_date, end_date,
                    fetchVars, outVars, calls >>

\* fetch_billing_data: the total-cost call; an exception ends the try block.
FetchTotalCost ==
    /\ pc = "total"
    /\ calls' = [calls EXCEPT !.total = @ + 1]
    /\ \E answer \in Answers(env).total :
          IF answer.ok
          THEN /\ total_response' = answer
               /\ total_cost' = answer.amount
               /\ currency' = answer.unit
               /\ fetched' = [fetched EXCEPT !.total = TRUE]
               /\ pc' = "accounts"
               /\ UNCHANGED billing_data
          ELSE /\ billing_data' = DefaultSnapshot(Period)
               /\ pc' = "check"
               /\ UNCHANGED << total_response, total_cost, currency, fetched >>
    /\ UNCHANGED << envVars, timeVars, org, dirVars, periodVars, cost_breakdown,
                    service_breakdown, account_response, service_response, outVars >>

\* fetch_billing_data: the by-account call, flatten and sort.
FetchCostByAccount ==
    /\ pc = "accounts"
    /\ calls' = [calls EXCEPT !.accounts = @ + 1]
    /\ \E answer \in Answers(env).accounts :
          IF answer.ok
          THEN /\ account_response' = answer.results
               /\ cost_breakdown' = AccountBreakdown(answer.results)
               /\ fetched' = [fetched EXCEPT !.accounts = TRUE]
               /\ pc' = "services"
               /\ UNCHANGED billing_data
          ELSE /\ billing_data' = DefaultSnapshot(Period)
               /\ pc' = "check"
               /\ UNCHANGED << account_response, cost_breakdown, fetched >>
    /\ UNCHANGED << envVars, timeVars, org, dirVars, periodVars, total_cost, currency,
                    total_response, service_breakdown, service_response, outVars >>

\* fetch_billing_data: the by-service call, flatten and sort.
FetchCostByService ==
    /\ pc = "services"
    /\ calls' = [calls EXCEPT !.services = @ + 1]
    /\ \E answer \in Answers(env).services :
          IF answer.ok
          THEN /\ service_response' = answer.results
               /\ service_breakdown' = ServiceBreakdown(answer.results)
               /\ fetched' = [fetched EXCEPT !.services = TRUE]
               /\ pc' = "forecast"
               /\ UNCHANGED billing_data
          ELSE /\ billing_data' = DefaultSnapshot(Period)
               /\ pc' = "check"
               /\ UNCHANGED << service_response, service_breakdown, fetched >>
    /\ UNCHANGED << envVars, timeVars, org, dirVars, periodVars, total_cost, currency,
                    total_response, cost_breakdown, account_response, outVars >>

\* fetch_billing_data: the forecast call in its own try block, and the return.
FetchForecast ==
    /\ pc = "forecast"
    /\ calls' = [calls EXCEPT !.forecast = @ + 1]
    /\ \E answer \in Answers(env).forecast :
          /\ billing_data' = SnapshotWithForecast(total_cost, currency, cost_breakdown,
                                                  service_breakdown, answer, Period)
          /\ fetched' = [fetched EXCEPT !.forecast = answer.ok]
    /\ pc' = "check"
    /\ UNCHANGED << envVars, timeVars, org, dirVars, periodVars, total_cost, currency,
                    total_response, cost_breakdown, service_breakdown, account_response,
                    service_response, outVars >>

\* lambda_handler: the test of the snapshot after fetch_billing_data.
CheckBillingData ==
    /\ pc = "check"
    /\ IF NoBillingData(billing_data)
       THEN result' = NoDataResult /\ pc' = "done"
       ELSE result' = result /\ pc' = "pdf"
    /\ UNCHANGED << envVars, timeVars, org, dirVars, periodVars, fetchVars,
                    pdf, pdf_filename, uploaded, s3_url, slack_message, requests_made,
                    slack_sent, calls >>

\* pdf_filename = generate_pdf_report(billing_data, org_id, org_name, account_names)
GeneratePdfReport ==
    /\ pc = "pdf"
    /\ pdf' = PdfReport(billing_data, org, account_names)
    /\ pdf_filename' = PdfFilename
    /\ calls' = [calls EXCEPT !.pdf = @ + 1]
    /\ pc' = "s3"
    /\ UNCHANGED << envVars, timeVars, org, dirVars, periodVars, fetchVars,
                    uploaded, s3_url, slack_message, requests_made, slack_sent, result >>

\* s3_url = upload_pdf_to_s3(pdf_filename)
UploadPdfToS3 ==
    /\ pc = "s3"
    /\ calls' = [calls EXCEPT !.s3 = @ + 1]
    /\ \E upload_ok \in Answers(env).s3 :
          /\ uploaded' = upload_ok
          /\ s3_url' = UploadedUrl(upload_ok)
    /\ pc' = "format"
    /\ UNCHANGED << envVars, timeVars, org, dirVars, periodVars, fetchVars,
                    pdf, pdf_filename, slack_message, requests_made, slack_sent, result >>

\* slack_message = format_slack_message(billing_data, account_names)
FormatSlackMessage ==
    /\ pc = "format"
    /\ slack_message' = SlackMessage(billing_data, account_names)
    /\ pc' = "slack"
    /\ UNCHANGED << envVars, timeVars, org, dirVars, periodVars, fetchVars,
                    pdf, pdf_filename, uploaded, s3_url, requests_made, slack_sent, result,
                    calls >>

\* slack_sent = send_to_slack(slack_message, pdf_filename, s3_url)
SendToSlack ==
    /\ pc = "slack"
    /\ \E upload \in Answers(env).upload, webhook \in Answers(env).webhook :
          LET outcome == SlackOutcome(slack_message, pdf_filename, s3_url,
                                      SLACK_WEBHOOK_URL, SLACK_API_TOKEN, upload, webhook)
              count(kind) == Cardinality({i \in DOMAIN outcome.requests :
                                            outcome.requests[i].kind = kind})
          IN  /\ requests_made' = outcome.requests
              /\ slack_sent' = outcome.sent
              /\ calls' = [calls EXCEPT !.upload = @ + count("files.upload"),
                                        !.webhook = @ + count("webhook"),
                                        !.slack = @ + 1]
    /\ pc' = "return"
    /\ UNCHANGED << envVars, timeVars, org, dirVars, periodVars, fetchVars,
                    pdf, pdf_filename, uploaded, s3_url, slack_message, result >>

\* lambda_handler: the result returned after the notification step.
Return ==
    /\ pc = "return"
    /\ result' = FullResult(org, billing_data, s3_url, slack_sent)
    /\ pc' = "done"
    /\ UNCHANGED << envVars, timeVars, org, dirVars, periodVars, fetchVars,
                    pdf, pdf_filename, uploaded, s3_url, slack_message, requests_made,
                    slack_sent, calls >>

Next ==
    \/ FetchAwsOrganizationDetails
    \/ FetchAwsAccountNames
    \/ GetLastMonthDates
    \/ Tick
    \/ ComputeForecastWindow
    \/ FetchTotalCost
    \/ FetchCostByAccount
    \/ FetchCostByService
    \/ FetchForecast
    \/ CheckBillingData
    \/ GeneratePdfReport
    \/ UploadPdfToS3
    \/ FormatSlackMessage
    \/ SendToSlack
    \/ Return

RunDate == Date(2023, 12, 31)

(***************************************************************************)
(* Specifications.                                                         *)
(***************************************************************************)
\* A run in which every external call may fail.
Init ==
    /\ env = "run"
    /\ clock = RunDate
    /\ SLACK_WEBHOOK_URL \in BOOLEAN
    /\ SLACK_API_TOKEN \in BOOLEAN
    /\ InitProgram

Spec == Init /\ [][Next]_vars

\* A run on any day of the years covered, every call answered.
InitPeriod ==
    /\ env = "quiet"
    /\ clock \in DatesOfYears(FirstYear..LastYear)
    /\ SLACK_WEBHOOK_URL = TRUE
    /\ SLACK_API_TOKEN = TRUE
    /\ InitProgram

SpecPeriod == InitPeriod /\ [][Next]_vars

\* A run in which the by-account or the by-service call returns any short list.
InitSort ==
    /\ env \in {"sort_accounts", "sort_services"}
    /\ clock = RunDate
    /\ SLACK_WEBHOOK_URL = TRUE
    /\ SLACK_API_TOKEN = TRUE
    /\ InitProgram

SpecSort == InitSort /\ [][Next]_vars

\* A run over totals of either sign and up to seven services.
InitReport ==
    /\ env = "report"
    /\ clock = RunDate
    /\ SLACK_WEBHOOK_URL = TRUE
    /\ SLACK_API_TOKEN = FALSE
    /\ InitProgram

SpecReport == InitReport /\ [][Next]_vars

\* A run over account and service names of every length up to the bounds.
InitNames ==
    /\ env = "names"
    /\ clock = RunDate
    /\ SLACK_WEBHOOK_URL = TRUE
    /\ SLACK_API_TOKEN = FALSE
    /\ InitProgram

SpecNames == InitNames /\ [][Next]_vars

(***************************************************************************)
(* Properties.                                                             *)
(***************************************************************************)
DigitValue(c) == (CHOOSE n \in 1..10 : Digits[n] = c) - 1

\* The date a "YYYY-MM-DD" string denotes.
ParseDate(str) ==
    Date(DigitValue(str[1]) * 1000 + DigitValue(str[2]) * 100
            + DigitValue(str[3]) * 10 + DigitValue(str[4]),
         DigitValue(str[6]) * 10 + DigitValue(str[7]),
         DigitValue(str[9]) * 10 + DigitValue(str[10]))

IsDateString(str) ==
    /\ Len(str) = 10
    /\ str[5] = "-" /\ str[8] = "-"
    /\ \A i \in {1, 2, 3, 4, 6, 7, 9, 10} : \E n \in 1..10 : Digits[n] = str[i]

\* The billing period has been computed.
BillingPeriodKnown == pc \notin {"org", "names", "dates"}

\* The forecast period has been computed.
ForecastPeriodKnown == pc \notin {"org", "names", "dates", "window"}

\* C1: the billing period is the calendar month before the month of the date
\* get_last_month_dates read: from its day 1 to its last day, which in January
\* is December of the year before (2024-01-15 gives 2023-12-01 .. 2023-12-31).
C1_LastMonthPeriod ==
    BillingPeriodKnown =>
        LET y == IF today_glmd.m = 1 THEN today_glmd.y - 1 ELSE today_glmd.y
            m == IF today_glmd.m = 1 THEN 12 ELSE today_glmd.m - 1
        IN  /\ IsDateString(start_date) /\ IsDateString(end_date)
            /\ ParseDate(start_date) = Date(y, m, 1)
            /\ ParseDate(end_date) = Date(y, m, DaysInMonth(y, m))
            /\ ToOrdinal(ParseDate(end_date)) + 1 = ToOrdinal(Date(today_glmd.y, today_glmd.m, 1))
            /\ today_glmd = Date(2024, 1, 15) =>
                  /\ start_date = <<"2", "0", "2", "3", "-", "1", "2", "-", "0", "1">>
                  /\ end_date = <<"2", "0", "2", "3", "-", "1", "2", "-", "3", "1">>

\* A run begun on 15 January 2024 has its billing period.
C1_Witness ==
    /\ BillingPeriodKnown
    /\ today_glmd = Date(2024, 1, 15)
    /\ ParseDate(start_date) = Date(2023, 12, 1)
    /\ ParseDate(end_date) = Date(2023, 12, 31)

\* C2: the forecast period runs from day 1 of the month of the date
\* fetch_billing_data read to day 1 of the month after, which in December is
\* 1 January of the next year.
C2_ForecastWindow ==
    ForecastPeriodKnown =>
        /\ IsDateString(forecast_start) /\ IsDateString(forecast_end)
        /\ ParseDate(forecast_start) = Date(today_fbd.y, today_fbd.m, 1)
        /\ ParseDate(forecast_end) =
              IF today_fbd.m = 12 THEN Date(today_fbd.y + 1, 1, 1)
                                  ELSE Date(today_fbd.y, today_fbd.m + 1, 1)

\* A run that read a December date has its forecast period end on 1 January.
C2_Witness ==
    /\ ForecastPeriodKnown
    /\ today_fbd.m = 12
    /\ ParseDate(forecast_end) = Date(today_fbd.y + 1, 1, 1)

\* fetch_billing_data has returned.
Returned == pc \in {"check", "pdf", "s3", "format", "slack", "return", "done"}

\* fetch_billing_data has returned from inside its try block.
ReturnedFromTry == Returned /\ fetched.total /\ fetched.accounts /\ fetched.services

\* The groups of an answer in the order the API gave them.
RECURSIVE ApiOrder(_)
ApiOrder(results) ==
    IF Len(results) = 0 THEN <<>>
    ELSE ApiOrder(SubSeq(results, 1, Len(results) - 1)) \o results[Len(results)]

Occurrences(s, x) == Cardinality({i \in DOMAIN s : s[i] = x})

\* The entries of s that cost c, in the order of s.
RECURSIVE CostingIn(_, _)
CostingIn(s, c) ==
    IF s = <<>> THEN <<>>
    ELSE IF Head(s).amount = c THEN << Head(s) >> \o CostingIn(Tail(s), c)
    ELSE CostingIn(Tail(s), c)

\* sorted is input reordered, costs never increasing, equal costs in input order.
IsStableDescendingSortOf(sorted, input) ==
    /\ Len(sorted) = Len(input)
    /\ \A i \in DOMAIN input : Occurrences(sorted, input[i]) = Occurrences(input, input[i])
    /\ \A i \in 1..(Len(sorted) - 1) : sorted[i].amount >= sorted[i + 1].amount
    /\ \A i \in DOMAIN input :
          CostingIn(sorted, input[i].amount) = CostingIn(input, input[i].amount)

AccountsAsGroups(breakdown) ==
    [i \in 1..Len(breakdown) |-> Group(breakdown[i].AccountID, breakdown[i].Cost)]

ServicesAsGroups(breakdown) ==
    [i \in 1..Len(breakdown) |-> Group(breakdown[i].ServiceName, breakdown[i].Cost)]

\* C3: the account breakdown and the service breakdown of the snapshot are the
\* groups the API returned, reordered so that costs never increase, groups of
\* equal cost keeping their API order.
C3_SortedBreakdowns ==
    ReturnedFromTry =>
        /\ IsStableDescendingSortOf(AccountsAsGroups(billing_data.cost_breakdown),
                                    ApiOrder(account_response))
        /\ IsStableDescendingSortOf(ServicesAsGroups(billing_data.service_breakdown),
                                    ApiOrder(service_response))

\* A snapshot whose account breakdown had to be reordered and has a tie
\* between two different accounts, over two results of the API.
C3_Witness ==
    /\ ReturnedFromTry
    /\ Len(account_response) = 2
    /\ Len(billing_data.cost_breakdown) = 3
    /\ AccountsAsGroups(billing_data.cost_breakdown) # ApiOrder(account_response)
    /\ \E i \in 1..2 :
          /\ billing_data.cost_breakdown[i].Cost = billing_data.cost_breakdown[i + 1].Cost
          /\ billing_data.cost_breakdown[i].AccountID # billing_data.cost_breakdown[i + 1].AccountID

\* The total-cost call and the forecast call of the run both returned an answer.
TotalAndForecastFetched == ReturnedFromTry /\ fetched.forecast

\* C4: when the total-cost call and the forecast call both succeed, mom_change
\* is (forecast_cost - total_cost) / total_cost * 100 for every total_cost
\* other than 0, a negative one included, and is 0 when total_cost is 0.
C4_MonthOverMonth ==
    TotalAndForecastFetched =>
        LET total == billing_data.total_cost
            forecast == billing_data.forecast_cost
        IN  /\ total # 0 =>
                  /\ billing_data.mom_change.den # 0
                  /\ RatEq(billing_data.mom_change, Rat((forecast - total) * 100, total))
            /\ total = 0 => billing_data.mom_change = Zero

\* The document has been rendered.
Rendered == pc \in {"s3", "format", "slack", "return", "done"} /\ pdf # Unset

\* The digest has been formatted.
Formatted == pc \in {"slack", "return", "done"} /\ slack_message # Unset

\* cost / total_cost * 100 as shown with one decimal, 0 for a total of 0.
ShownShare(cost, total) == IF total = 0 THEN 0 ELSE FormatTenths(Rat(cost * 100, total))

\* The share of entry i of a list of the snapshot is the one shown in row i.
SharesShown(rows, entries, total) ==
    \A i \in DOMAIN rows : rows[i].Percentage = ShownShare(entries[i].Cost, total)

\* C5: every percentage of the total shown for an entry (account row of the
\* document, account row and top-service line of the digest, service row, bar
\* segment, legend entry) is cost / total_cost * 100 when total_cost is not 0
\* and 0 when it is 0.
C5_PercentOfTotal ==
    /\ Rendered =>
          LET total == billing_data.total_cost
              shown == TopServices(billing_data.service_breakdown)
          IN  /\ SharesShown(pdf.account_rows, billing_data.cost_breakdown, total)
              /\ SharesShown(pdf.service_rows, shown, total)
              /\ SharesShown(pdf.legend, shown, total)
              /\ \A i \in DOMAIN pdf.bar :
                    /\ pdf.bar[i].Percentage.den # 0
                    /\ IF total = 0 THEN pdf.bar[i].Percentage = Zero
                       ELSE RatEq(pdf.bar[i].Percentage, Rat(shown[i].Cost * 100, total))
    /\ Formatted =>
          LET total == billing_data.total_cost
          IN  /\ SharesShown(slack_message.account_rows, billing_data.cost_breakdown, total)
              /\ SharesShown(slack_message.top_service, billing_data.service_breakdown, total)

RECURSIVE CostFrom(_, _)
CostFrom(breakdown, i) ==
    IF i > Len(breakdown) THEN 0 ELSE breakdown[i].Cost + CostFrom(breakdown, i + 1)

\* Rows 1..n of a table or legend show entries 1..n of the service breakdown.
ShowsFirst(rows, breakdown, n) ==
    \A i \in 1..n :
        /\ rows[i].Cost = breakdown[i].Cost
        /\ IF Len(breakdown[i].ServiceName) > 30
           THEN rows[i].ServiceName = SubSeq(breakdown[i].ServiceName, 1, 27) \o <<".", ".", ".">>
           ELSE rows[i].ServiceName = breakdown[i].ServiceName

\* The first n entries of the breakdown cost no less than any later one.
HighestFirst(breakdown, n) ==
    \A i \in 1..n : \A j \in (i + 1)..Len(breakdown) : breakdown[i].Cost >= breakdown[j].Cost

IsOtherRow(row, cost) ==
    /\ row.ServiceName = <<"O", "t", "h", "e", "r", " ", "S", "e", "r", "v", "i", "c", "e", "s">>
    /\ row.Cost = cost

\* The table, the bar and the legend show the five highest-cost services in
\* order and then "Other Services" with the summed cost of the rest.
ShowsTopFiveAndOther(breakdown) ==
    /\ Len(pdf.service_rows) = 6 /\ Len(pdf.bar) = 6 /\ Len(pdf.legend) = 6
    /\ HighestFirst(breakdown, 5)
    /\ ShowsFirst(pdf.service_rows, breakdown, 5)
    /\ \A i \in 1..5 : pdf.legend[i].ServiceName = pdf.service_rows[i].ServiceName
    /\ IsOtherRow(pdf.service_rows[6], CostFrom(breakdown, 6))
    /\ pdf.legend[6].ServiceName = pdf.service_rows[6].ServiceName

\* The table, the bar and the legend show the first n services and nothing else.
ShowsOnlyFirst(breakdown, n) ==
    /\ Len(pdf.service_rows) = n /\ Len(pdf.bar) = n /\ Len(pdf.legend) = n
    /\ HighestFirst(breakdown, n)
    /\ ShowsFirst(pdf.service_rows, breakdown, n)
    /\ \A i \in 1..n : pdf.legend[i].ServiceName = pdf.service_rows[i].ServiceName

\* C6 as stated: with more than 5 services the document shows exactly 6
\* entries, the 5 highest-cost services in order and then "Other Services"
\* costing the sum of all the others; with 5 or fewer it shows them and no
\* "Other Services".
C6_Original ==
    Rendered =>
        LET breakdown == billing_data.service_breakdown
        IN  IF Len(breakdown) > 5 THEN ShowsTopFiveAndOther(breakdown)
            ELSE ShowsOnlyFirst(breakdown, Len(breakdown))

\* C6, amended: with more than 5 services whose costs beyond the fifth sum to
\* more than 0 the document shows exactly 6 entries, the 5 highest-cost
\* services in order and then "Other Services" costing that sum; in every
\* other case (5 or fewer services, or a sum of 0 or less) it shows the first
\* 5 services, or all if fewer, and no "Other Services".
C6_TopFiveAndOther ==
    Rendered =>
        LET breakdown == billing_data.service_breakdown
        IN  IF Len(breakdown) > 5 /\ CostFrom(breakdown, 6) > 0
            THEN ShowsTopFiveAndOther(breakdown)
            ELSE ShowsOnlyFirst(breakdown, IF Len(breakdown) > 5 THEN 5 ELSE Len(breakdown))

\* The document for services costing 50, 40, 30, 20, 10, 5 and 3 shows
\* "Other Services" at 8.
C6_Witness ==
    /\ Rendered
    /\ [i \in 1..Len(billing_data.service_breakdown) |-> billing_data.service_breakdown[i].Cost]
          = <<50, 40, 30, 20, 10, 5, 3>>
    /\ Len(pdf.service_rows) = 6
    /\ pdf.service_rows[6].Cost = 8

\* The call was made and raised.
TotalFetchFailed == calls.total = 1 /\ ~fetched.total
AccountFetchFailed == calls.accounts = 1 /\ ~fetched.accounts
ServiceFetchFailed == calls.services = 1 /\ ~fetched.services
ForecastFetchFailed == calls.forecast = 1 /\ ~fetched.forecast

\* Nothing has been rendered, stored or sent.
NothingProduced ==
    /\ calls.pdf = 0 /\ pdf = Unset /\ pdf_filename = None
    /\ calls.s3 = 0 /\ s3_url = None
    /\ calls.slack = 0 /\ calls.upload = 0 /\ calls.webhook = 0 /\ requests_made = <<>>

\* The document has been rendered, its upload tried and send_to_slack called.
AllProduced ==
    /\ calls.pdf = 1 /\ pdf # Unset
    /\ calls.s3 = 1
    /\ slack_message # Unset /\ calls.slack = 1

NoDataMessage == "No billing data available"

\* C7: when the total-cost call fails the run ends with the result
\* 'No billing data available', and nothing is rendered, stored or sent.
C7_TotalFailureAborts ==
    TotalFetchFailed =>
        /\ pc \in {"check", "done"}
        /\ NothingProduced
        /\ calls.accounts = 0 /\ calls.services = 0 /\ calls.forecast = 0
        /\ pc = "done" => result = [message |-> NoDataMessage]

\* A run whose total-cost call failed has ended.
C7_Witness == TotalFetchFailed /\ pc = "done" /\ result.message = NoDataMessage

\* The snapshot after a failed forecast call, the three other calls answered.
ForecastFallback ==
    /\ billing_data.forecast_cost = 0
    /\ billing_data.forecast_currency = total_response.unit
    /\ billing_data.mom_change = [num |-> 0, den |-> 1]
    /\ billing_data.total_cost = total_response.amount
    /\ billing_data.currency = total_response.unit
    /\ IsStableDescendingSortOf(AccountsAsGroups(billing_data.cost_breakdown),
                                ApiOrder(account_response))
    /\ IsStableDescendingSortOf(ServicesAsGroups(billing_data.service_breakdown),
                                ApiOrder(service_response))

\* C8 as stated: when only the forecast call fails, the snapshot has forecast
\* 0 in the billing currency and change 0 and keeps the fetched total, currency
\* and breakdowns, and the run goes on to render, store and notify.
C8_Original ==
    (ReturnedFromTry /\ ForecastFetchFailed) =>
        /\ ForecastFallback
        /\ pc = "done" => (AllProduced /\ result.message # NoDataMessage)

\* C8, amended: when only the forecast call fails, the snapshot has forecast 0
\* in the billing currency and change 0 and keeps the fetched total, currency
\* and breakdowns, and the run goes on to render, store and notify unless
\* total_cost is 0 and the account breakdown is empty, in which case it ends
\* with 'No billing data available'.
C8_ForecastFailureFallback ==
    (ReturnedFromTry /\ ForecastFetchFailed) =>
        /\ ForecastFallback
        /\ pc = "done" =>
              IF total_response.amount = 0 /\ ApiOrder(account_response) = <<>>
              THEN NothingProduced /\ result = [message |-> NoDataMessage]
              ELSE AllProduced /\ result.message # NoDataMessage

\* A run billed in EUR whose forecast call alone failed has ended with a
\* report.
C8_Witness ==
    /\ ReturnedFromTry /\ ForecastFetchFailed
    /\ pc = "done"
    /\ billing_data.currency = "EUR" /\ billing_data.forecast_currency = "EUR"
    /\ billing_data.cost_breakdown # <<>>
    /\ AllProduced

\* C9: a failure of the by-account or by-service call after the total-cost
\* call succeeded is not fatal: the snapshot carries the fetched total_cost and
\* currency, and the run does not end with 'No billing data available' for it.
C9_BreakdownFailureNotFatal ==
    (Returned /\ fetched.total /\ (AccountFetchFailed \/ ServiceFetchFailed)) =>
        /\ billing_data.total_cost = total_response.amount
        /\ billing_data.currency = total_response.unit
        /\ (pc = "done" /\ total_response.amount # 0) => result.message # NoDataMessage

\* The artifact upload was tried and raised.
ArtifactUploadFailed == calls.s3 = 1 /\ ~uploaded

\* C10: when the artifact upload fails no URL is returned and the run goes
\* on: the digest is formatted, send_to_slack is called and posts, if the
\* webhook is configured, one message without a download link, and the result
\* has a null artifact URL and the notification-sent value of that post.
C10_UploadFailureContinues ==
    (ArtifactUploadFailed /\ pc = "done") =>
        /\ s3_url = "None"
        /\ slack_message # Unset /\ calls.slack = 1
        /\ calls.upload = 0
        /\ Len(requests_made) = (IF SLACK_WEBHOOK_URL THEN 1 ELSE 0)
        /\ \A i \in DOMAIN requests_made :
              requests_made[i].kind = "webhook" /\ requests_made[i].text.link = <<>>
        /\ result.message # NoDataMessage
        /\ result.pdf_report_url = "None"
        /\ result.slack_message_sent =
              (\E i \in DOMAIN requests_made : requests_made[i].delivered)

\* A run whose artifact upload failed has ended with the digest delivered.
C10_Witness ==
    /\ ArtifactUploadFailed /\ pc = "done"
    /\ Len(requests_made) = 1
    /\ result.slack_message_sent

\* send_to_slack has been called.
SlackCalled == calls.slack = 1

ReportMessage == "Billing report generated and notifications sent"

\* send_to_slack made no HTTP request and returned False.
NotificationSkipped ==
    /\ requests_made = <<>>
    /\ calls.upload = 0 /\ calls.webhook = 0
    /\ ~slack_sent

\* C11 as stated: with no webhook configured send_to_slack makes no HTTP
\* request and returns False, and lambda_handler returns the full result, the
\* artifact stored and slack_message_sent false.
C11_Original ==
    (SlackCalled /\ ~SLACK_WEBHOOK_URL) =>
        /\ NotificationSkipped
        /\ uploaded
        /\ pc = "done" =>
              /\ result.message = ReportMessage
              /\ result.pdf_report_url # "None"
              /\ result.slack_message_sent = FALSE

\* C11, amended: with no webhook configured send_to_slack makes no HTTP
\* request and returns False, and lambda_handler returns the full result with
\* slack_message_sent false, the artifact upload already tried: its URL in the
\* result if it succeeded, null if it failed.
C11_NoWebhookShortCircuit ==
    (SlackCalled /\ ~SLACK_WEBHOOK_URL) =>
        /\ NotificationSkipped
        /\ calls.pdf = 1 /\ calls.s3 = 1
        /\ pc = "done" =>
              /\ result.message = ReportMessage
              /\ result.pdf_report_url # "None" <=> uploaded
              /\ result.total_cost = billing_data.total_cost
              /\ result.slack_message_sent = FALSE

\* A run without a webhook has ended with its artifact stored.
C11_Witness ==
    /\ SlackCalled /\ ~SLACK_WEBHOOK_URL /\ SLACK_API_TOKEN
    /\ pc = "done"
    /\ uploaded
    /\ result.slack_message_sent = FALSE

\* Requests i of send_to_slack of the kind given.
RequestsOfKind(kind) == {i \in DOMAIN requests_made : requests_made[i].kind = kind}

\* What the answers say: the attachment upload, respectively the webhook
\* post, delivered the digest.
AnswerDelivers(request) ==
    /\ ~request.answer.exc
    /\ request.answer.status = 200
    /\ request.kind = "files.upload" => request.answer.ok

\* C12: with the webhook configured, a document and an artifact URL, whenever
\* the attachment upload is unavailable (no API token) or fails (exception,
\* status other than 200, ok false), exactly one webhook post is made, and its
\* text is the digest followed by the link to the artifact URL.
C12_FallbackToLink ==
    (SlackCalled /\ SLACK_WEBHOOK_URL /\ uploaded) =>
        /\ SLACK_API_TOKEN <=> Cardinality(RequestsOfKind("files.upload")) = 1
        /\ ~SLACK_API_TOKEN => RequestsOfKind("files.upload") = {}
        /\ (\A i \in RequestsOfKind("files.upload") : ~AnswerDelivers(requests_made[i])) =>
              /\ Cardinality(RequestsOfKind("webhook")) = 1
              /\ \A i \in RequestsOfKind("webhook") :
                    /\ i = Len(requests_made)
                    /\ requests_made[i].text.link = << s3_url >>
                    /\ [requests_made[i].text EXCEPT !.link = <<>>] = slack_message
                    /\ s3_url # "None"

\* A run whose attachment upload was answered 200 with ok false has posted
\* the digest with the link.
C12_Witness ==
    /\ SlackCalled /\ SLACK_WEBHOOK_URL /\ uploaded
    /\ Len(requests_made) = 2
    /\ requests_made[1].kind = "files.upload"
    /\ requests_made[1].answer.status = 200 /\ ~requests_made[1].answer.ok
    /\ requests_made[2].kind = "webhook"
    /\ requests_made[2].text.link = << s3_url >>

ExternalCalls == {"total", "accounts", "services", "forecast", "s3", "upload", "webhook"}

\* C13: in a run each external call is made at most once: the total-cost,
\* by-account, by-service and forecast calls, the artifact upload, the
\* attachment upload and the webhook post.
C13_NoRetries ==
    /\ \A call \in ExternalCalls : calls[call] <= 1
    /\ Cardinality(RequestsOfKind("files.upload")) = calls.upload
    /\ Cardinality(RequestsOfKind("webhook")) = calls.webhook
    /\ Len(requests_made) <= 2

\* A run in which every external call was made, the attachment upload having
\* failed.
C13_Witness ==
    /\ pc = "done"
    /\ \A call \in ExternalCalls : calls[call] = 1

\* C14: when the directory lookup fails, at whatever page, the directory
\* fetch_aws_account_names returns is empty, and the run goes on.
C14_FailedDirectoryIsEmpty ==
    (pc # "org" /\ pc # "names" /\ directory_response.fail_at # 0) =>
        /\ DOMAIN account_names = {}
        /\ pc # "done" \/ calls.total = 1

\* shown is name as displayed under a budget of n characters: a prefix of
\* name and "..." in at most n characters if name is longer than n, name
\* itself otherwise.
DisplaysWithin(shown, name, n) ==
    IF Len(name) > n
    THEN /\ Len(shown) <= n
         /\ \E k \in 0..Len(name) : shown = SubSeq(name, 1, k) \o <<".", ".", ".">>
    ELSE shown = name

\* The text of a cell without the blanks that fill the column.
RECURSIVE Unpadded(_)
Unpadded(cell) ==
    IF cell # <<>> /\ cell[Len(cell)] = " "
    THEN Unpadded(SubSeq(cell, 1, Len(cell) - 1)) ELSE cell

\* The display name of an account of the directory.
DisplayName(account_id) ==
    IF account_id \in DOMAIN account_names THEN account_names[account_id]
    ELSE <<"U", "n", "k", "n", "o", "w", "n">>

\* C15: an account name longer than 12 characters is shown in the digest's
\* top-accounts table, and a service name longer than 30 characters in the
\* service table and the legend, as a prefix of it followed by "...", in at
\* most 12 respectively 30 characters; a name within the budget is shown
\* unchanged.
C15_NameTruncation ==
    /\ Formatted =>
          /\ Len(slack_message.account_rows) = Min(5, Len(billing_data.cost_breakdown))
          /\ \A i \in DOMAIN slack_message.account_rows :
                DisplaysWithin(Unpadded(slack_message.account_rows[i].AccountName),
                               DisplayName(billing_data.cost_breakdown[i].AccountID), 12)
    /\ Rendered =>
          /\ Len(pdf.service_rows) >= Min(5, Len(billing_data.service_breakdown))
          /\ Len(pdf.legend) = Len(pdf.service_rows)
          /\ \A i \in 1..Min(5, Len(billing_data.service_breakdown)) :
                /\ DisplaysWithin(pdf.service_rows[i].ServiceName,
                                  billing_data.service_breakdown[i].ServiceName, 30)
                /\ DisplaysWithin(pdf.legend[i].ServiceName,
                                  billing_data.service_breakdown[i].ServiceName, 30)

\* A digest and a document showing a 13-character account name and a
\* 31-character service name cut to 12 and 30 characters.
C15_Witness ==
    /\ Formatted /\ Rendered
    /\ Len(DisplayName(billing_data.cost_breakdown[1].AccountID)) = 13
    /\ Len(Unpadded(slack_message.account_rows[1].AccountName)) = 12
    /\ Len(billing_data.service_breakdown[1].ServiceName) = 31
    /\ Len(pdf.service_rows[1].ServiceName) = 30
    /\ Len(pdf.legend[1].ServiceName) = 30

\* Requests i of send_to_slack that delivered the digest, by their answers.
DeliveredRequests == {i \in DOMAIN requests_made : AnswerDelivers(requests_made[i])}

\* C16: in a run at most one notification is delivered: the webhook post is
\* made only if no attachment upload was made or it did not deliver,
\* send_to_slack returns True exactly when the attachment upload (200, ok) or
\* the webhook post (200) delivered, and slack_message_sent of the result is
\* that value.
C16_AtMostOneNotification ==
    /\ ~SlackCalled => requests_made = <<>> /\ ~slack_sent
    /\ Cardinality(DeliveredRequests) <= 1
    /\ RequestsOfKind("webhook") # {} =>
          \A i \in RequestsOfKind("files.upload") : i \notin DeliveredRequests
    /\ slack_sent <=> DeliveredRequests # {}
    /\ (pc = "done" /\ SlackCalled) =>
          (result.slack_message_sent <=> DeliveredRequests # {})

\* A run whose attachment upload delivered the digest has made that one
\* request and reports the notification as sent.
C16_Witness ==
    /\ pc = "done" /\ SlackCalled
    /\ Len(requests_made) = 1
    /\ requests_made[1].kind = "files.upload"
    /\ DeliveredRequests = {1}
    /\ result.slack_message_sent

\* C17: the forecast period starts the day after the billing period ends,
\* also when midnight passes between the read of the date in
\* get_last_month_dates and the read in fetch_billing_data.
C17_ForecastFollowsBilling ==
    ForecastPeriodKnown =>
        ToOrdinal(ParseDate(forecast_start)) = ToOrdinal(ParseDate(end_date)) + 1

====
